---- MODULE Spec2Model ----
(***************************************************************************)
(* Model of wrapped-out.py: the Postman collection / environment resolver. *)
(*                                                                         *)
(* JSON documents are tagged values; Python strings are sequences of       *)
(* one-character strings, so that the regular expression scan and          *)
(* str.replace are computed character by character.  A Python call         *)
(* returns a completion record: exc = "None" with its value, or the name   *)
(* of the exception it raised.                                             *)
(***************************************************************************)
EXTENDS Integers, Sequences, FiniteSets, TLC

VARIABLES
  pc,               \* where the program is
  files,            \* what opening and parsing each of the two files gives
  env_data,         \* the parsed environment document
  collection_data,  \* the parsed collection document
  env_map,          \* the completion of get_environment_map
  final_requests,   \* the completion of find_and_process_items
  second_requests,  \* the completion of a second, identical call
  exception,        \* the exception main's try block is unwinding with
  stdout,           \* the lines printed
  calls             \* the functions called so far, in order

vars == <<pc, files, env_data, collection_data, env_map, final_requests,
          second_requests, exception, stdout, calls>>

(***************************************************************************)
(* Bounds of the model.                                                    *)
(***************************************************************************)
MaxEntries == 3
MaxPieces == 3
MaxWidth == 2

(***************************************************************************)
(* JSON values as json.load builds them.                                   *)
(***************************************************************************)
JNull == [t |-> "null"]
JBool(b) == [t |-> "bool", v |-> b]
JNum(n) == [t |-> "num", v |-> n]
JStr(s) == [t |-> "str", v |-> s]
JList(l) == [t |-> "list", v |-> l]
JObj(f) == [t |-> "obj", v |-> f]

EmptyDict == [k \in {} |-> JNull]

(***************************************************************************)
(* Completion of a Python expression or call.                              *)
(***************************************************************************)
Ok(x) == [exc |-> "None", val |-> x]
Raise(e) == [exc |-> e, val |-> JNull]

(***************************************************************************)
(* The characters of the string literals the code tests with `in`.         *)
(***************************************************************************)
Chars(k) ==
  CASE k = "item" -> <<"i", "t", "e", "m">>
    [] k = "request" -> <<"r", "e", "q", "u", "e", "s", "t">>
    [] k = "values" -> <<"v", "a", "l", "u", "e", "s">>

NA == <<"N", "/", "A">>

(***************************************************************************)
(* Python primitives.                                                      *)
(***************************************************************************)
IsPrefixAt(s, i, p) ==
  /\ i + Len(p) - 1 <= Len(s)
  /\ \A j \in 1..Len(p) : s[i + j - 1] = p[j]

\* sub in s, for two str
IsSubstring(sub, s) == \E i \in 1..(Len(s) + 1) : IsPrefixAt(s, i, sub)

\* bool(v)
Truthy(x) ==
  CASE x.t = "null" -> FALSE
    [] x.t = "bool" -> x.v
    [] x.t = "num" -> x.v # 0
    [] x.t = "str" -> Len(x.v) > 0
    [] x.t = "list" -> Len(x.v) > 0
    [] x.t = "obj" -> DOMAIN x.v # {}

\* `k in c` for a str literal k
PyContains(k, c) ==
  CASE c.t = "obj" -> Ok(k \in DOMAIN c.v)
    [] c.t = "list" -> Ok(\E i \in 1..Len(c.v) : c.v[i] = JStr(Chars(k)))
    [] c.t = "str" -> Ok(IsSubstring(Chars(k), c.v))
    [] OTHER -> Raise("TypeError")

\* c[k] for a str literal k
PyGetItem(c, k) ==
  IF c.t = "obj"
    THEN IF k \in DOMAIN c.v THEN Ok(c.v[k]) ELSE Raise("KeyError")
    ELSE Raise("TypeError")

\* c.get(k, default)
PyGet(c, k, default) ==
  IF c.t = "obj"
    THEN Ok(IF k \in DOMAIN c.v THEN c.v[k] ELSE default)
    ELSE Raise("AttributeError")

\* hash(x) succeeds
Hashable(x) == x.t \notin {"list", "obj"}

\* the key a dict files x under: True == 1 and False == 0 hash alike
DictKey(x) == IF x.t = "bool" THEN JNum(IF x.v THEN 1 ELSE 0) ELSE x

\* d[k] = x
SetItem(d, k, x) ==
  [j \in DOMAIN d \cup {DictKey(k)} |-> IF j = DictKey(k) THEN x ELSE d[j]]

(***************************************************************************)
(* get_environment_map                                                     *)
(***************************************************************************)
\* first-wins variant of the store (a plausible slip: setdefault)
SetItemFirstWins(d, k, x) ==
  IF DictKey(k) \in DOMAIN d THEN d ELSE SetItem(d, k, x)

\* variable_map[item['key']] = item['value']
StoreVariable(variable_map, k, x) == SetItem(variable_map, k, x)

\* variant that ignores the enabled flag
EntryIncludedIgnoringEnabled(item) ==
  /\ "key" \in DOMAIN item.v
  /\ "value" \in DOMAIN item.v

\* item.get('enabled', False) and 'key' in item and 'value' in item
EntryIncluded(item) ==
  /\ Truthy(PyGet(item, "enabled", JBool(FALSE)).val)
  /\ "key" \in DOMAIN item.v
  /\ "value" \in DOMAIN item.v

RECURSIVE EnvLoop(_, _, _)
EnvLoop(values, i, variable_map) ==
  IF i > Len(values) THEN Ok(variable_map)
  ELSE LET item == values[i] IN
    IF PyGet(item, "enabled", JBool(FALSE)).exc # "None"
      THEN Raise("AttributeError")
    ELSE IF EntryIncluded(item)
      THEN IF Hashable(item.v["key"])
             THEN EnvLoop(values, i + 1,
                          StoreVariable(variable_map, item.v["key"], item.v["value"]))
             ELSE Raise("TypeError")
      ELSE EnvLoop(values, i + 1, variable_map)

get_environment_map(data) ==
  LET has == PyContains("values", data) IN
  IF has.exc # "None" THEN has
  ELSE IF ~has.val THEN Ok(EmptyDict)
  ELSE LET got == PyGetItem(data, "values") IN
    IF got.exc # "None" THEN got
    ELSE IF got.val.t = "list" THEN EnvLoop(got.val.v, 1, EmptyDict)
    ELSE Ok(EmptyDict)

(***************************************************************************)
(* re.findall(r"\{\{([^{}]+)\}\}", raw_url) and str.replace                *)
(***************************************************************************)
IsBrace(c) == c \in {"{", "}"}

\* the index of the first brace at or after i, or Len(s) + 1
RECURSIVE RunEnd(_, _)
RunEnd(s, i) ==
  IF i > Len(s) \/ IsBrace(s[i]) THEN i ELSE RunEnd(s, i + 1)

\* the index of the last character of a match starting at i, or 0
MatchEnd(s, i) ==
  IF i + 1 <= Len(s) /\ s[i] = "{" /\ s[i + 1] = "{"
    THEN LET r == RunEnd(s, i + 2) IN
         IF r > i + 2 /\ r + 1 <= Len(s) /\ s[r] = "}" /\ s[r + 1] = "}"
           THEN r + 1
           ELSE 0
    ELSE 0

\* the captured names of the non-overlapping matches, left to right
RECURSIVE FindAllFrom(_, _)
FindAllFrom(s, i) ==
  IF i > Len(s) THEN <<>>
  ELSE LET e == MatchEnd(s, i) IN
    IF e > 0
      THEN <<SubSeq(s, i + 2, e - 2)>> \o FindAllFrom(s, e + 1)
      ELSE FindAllFrom(s, i + 1)

findall(s) == FindAllFrom(s, 1)

\* s[i:].replace(old, new), old not empty
RECURSIVE ReplaceFrom(_, _, _, _)
ReplaceFrom(s, i, old, new) ==
  IF i > Len(s) THEN <<>>
  ELSE IF IsPrefixAt(s, i, old)
    THEN new \o ReplaceFrom(s, i + Len(old), old, new)
    ELSE <<s[i]>> \o ReplaceFrom(s, i + 1, old, new)

replace(s, old, new) == ReplaceFrom(s, 1, old, new)

\* f"{{{{{placeholder}}}}}"
Token(placeholder) == <<"{", "{">> \o placeholder \o <<"}", "}">>

(***************************************************************************)
(* find_and_process_items                                                  *)
(***************************************************************************)
\* variant that blanks a placeholder the map does not hold:
\* resolved_url.replace(token, env_map.get(placeholder, ""))
SubstituteOrBlank(resolved_url, placeholder, map) ==
  IF JStr(placeholder) \in DOMAIN map
    THEN IF map[JStr(placeholder)].t # "str"
           THEN Raise("TypeError")
           ELSE Ok(replace(resolved_url, Token(placeholder), map[JStr(placeholder)].v))
    ELSE Ok(replace(resolved_url, Token(placeholder), <<>>))

\* one turn of the loop: if placeholder in env_map: resolved_url = ...
\* str.replace raises TypeError when the value is not a str
Substitute(resolved_url, placeholder, map) ==
  IF JStr(placeholder) \in DOMAIN map
    THEN IF map[JStr(placeholder)].t # "str"
           THEN Raise("TypeError")
           ELSE Ok(replace(resolved_url, Token(placeholder), map[JStr(placeholder)].v))
    ELSE Ok(resolved_url)

\* for placeholder in placeholders: ...
RECURSIVE ReplaceLoop(_, _, _, _)
ReplaceLoop(placeholders, i, resolved_url, map) ==
  IF i > Len(placeholders) THEN Ok(resolved_url)
  ELSE LET next == Substitute(resolved_url, placeholders[i], map) IN
    IF next.exc # "None" THEN next
    ELSE ReplaceLoop(placeholders, i + 1, next.val, map)

\* the body of the try block
RequestBody(collection_item, map) ==
  LET request == PyGetItem(collection_item, "request") IN
  IF request.exc # "None" THEN request
  ELSE LET url == PyGetItem(request.val, "url") IN
  IF url.exc # "None" THEN url
  ELSE LET raw_url == PyGetItem(url.val, "raw") IN
  IF raw_url.exc # "None" THEN raw_url
  ELSE LET method == PyGet(request.val, "method", JStr(NA)) IN
  IF method.exc # "None" THEN method
  ELSE IF raw_url.val.t # "str" THEN Raise("TypeError")
  ELSE LET placeholders == findall(raw_url.val.v)
           resolved_url == ReplaceLoop(placeholders, 1, raw_url.val.v, map)
       IN IF resolved_url.exc # "None" THEN resolved_url
          ELSE Ok([method |-> method.val, url |-> resolved_url.val])

\* try: ... except (KeyError, TypeError): pass
\* the value is what the block appended to resolved_requests
TryRequest(collection_item, map) ==
  LET body == RequestBody(collection_item, map) IN
  IF body.exc = "None" THEN Ok(<<body.val>>)
  ELSE IF body.exc \in {"KeyError", "TypeError"} THEN Ok(<<>>)
  ELSE body

\* variant that puts the new results in front
ExtendFront(resolved_requests, more) == more \o resolved_requests

\* resolved_requests.extend(more); append is extend with one element
Extend(resolved_requests, more) == resolved_requests \o more

RECURSIVE find_and_process_items(_, _)
RECURSIVE WalkList(_, _, _, _)

\* for item in collection_item: resolved_requests.extend(...)
WalkList(items, i, map, resolved_requests) ==
  IF i > Len(items) THEN Ok(resolved_requests)
  ELSE LET sub == find_and_process_items(items[i], map) IN
    IF sub.exc # "None" THEN sub
    ELSE WalkList(items, i + 1, map, Extend(resolved_requests, sub.val))

find_and_process_items(collection_item, map) ==
  IF collection_item.t = "list" THEN WalkList(collection_item.v, 1, map, <<>>)
  ELSE LET hasItem == PyContains("item", collection_item) IN
  IF hasItem.exc # "None" THEN hasItem
  ELSE LET item == IF hasItem.val THEN PyGetItem(collection_item, "item") ELSE Ok(JNull) IN
  IF item.exc # "None" THEN item
  ELSE LET children == IF hasItem.val /\ item.val.t = "list"
                         THEN find_and_process_items(item.val, map)
                         ELSE Ok(<<>>) IN
  IF children.exc # "None" THEN children
  ELSE LET hasRequest == PyContains("request", collection_item) IN
  IF hasRequest.exc # "None" THEN hasRequest
  ELSE IF ~hasRequest.val THEN children
  ELSE LET own == TryRequest(collection_item, map) IN
    IF own.exc # "None" THEN own
    ELSE Ok(Extend(children.val, own.val))

(***************************************************************************)
(* Inputs.                                                                 *)
(***************************************************************************)
SeqsUpTo(S, n) == UNION {[1..k -> S] : k \in 0..n}

RECURSIVE Concat(_)
Concat(ss) == IF ss = <<>> THEN <<>> ELSE Head(ss) \o Concat(Tail(ss))

Unset == [exc |-> "unset", val |-> JNull]

A == <<"a">>
B == <<"b">>
C == <<"c">>
X == <<"x">>
Y == <<"y">>
Z == <<"z">>

\* entries of an environment document's 'values'
Entries ==
  { JObj([enabled |-> JBool(TRUE), key |-> JStr(A), value |-> JStr(X)]),
    JObj([enabled |-> JBool(TRUE), key |-> JStr(A), value |-> JStr(Y)]),
    JObj([enabled |-> JBool(TRUE), key |-> JStr(B), value |-> JStr(X)]),
    JObj([enabled |-> JBool(FALSE), key |-> JStr(A), value |-> JStr(Z)]),
    JObj([enabled |-> JBool(TRUE), key |-> JStr(A)]),
    JObj([key |-> JStr(A), value |-> JStr(Z)]),
    JObj([enabled |-> JBool(TRUE), key |-> JStr(B), value |-> JNum(7)]),
    JObj([enabled |-> JNum(1), key |-> JStr(B), value |-> JStr(Y)]),
    JObj([enabled |-> JBool(TRUE), key |-> JList(<<>>), value |-> JStr(X)]),
    JObj([enabled |-> JBool(FALSE), key |-> JList(<<>>), value |-> JStr(X)]),
    JObj([enabled |-> JBool(TRUE), value |-> JStr(X)]),
    JStr(<<"a", "b">>),
    JNull }

\* environment documents: every 'values' list up to MaxEntries, and the
\* documents with no usable 'values'
EnvDocs ==
  {JObj([values |-> JList(es)]) : es \in SeqsUpTo(Entries, MaxEntries)}
  \cup { JObj(EmptyDict),
         JObj([values |-> JStr(A)]),
         JObj([values |-> JNull]),
         JNull,
         JNum(0),
         JList(<<JStr(Chars("values"))>>),
         JList(<<>>),
         JStr(Chars("values")),
         JStr(A) }

Enabled(k, x) == JObj([enabled |-> JBool(TRUE), key |-> JStr(k), value |-> x])

\* the environment documents the walk is run with
WalkEnvDocs ==
  { JObj([values |-> JList(<<>>)]),
    JObj([values |-> JList(<<Enabled(A, JStr(X))>>)]),
    JObj([values |-> JList(<<Enabled(A, JStr(X)), Enabled(B, JStr(Token(A)))>>)]),
    JObj([values |-> JList(<<Enabled(A, JNum(7)), Enabled(B, JStr(Y))>>)]),
    JObj([values |-> JList(<<JNull>>)]) }

Url(raw) == JObj([raw |-> raw])
Req(m, raw) == JObj([method |-> JStr(m), url |-> Url(JStr(raw))])
ReqNoMethod(raw) == JObj([url |-> Url(JStr(raw))])
Leaf(r) == JObj([request |-> r])
Folder(items) == JObj([item |-> JList(items)])
Both(items, r) == JObj([item |-> JList(items), request |-> r])

GET == <<"G">>
POST == <<"P">>

RawA == Token(A)
RawAB == Token(A) \o <<"/">> \o Token(B)
RawPlain == <<"/", "u">>

GoodA == Leaf(Req(GET, RawA))
GoodAB == Leaf(Req(POST, RawAB))
GoodPlain == Leaf(ReqNoMethod(RawPlain))

\* nodes of a collection tree: requests, folders, both, and malformed ones
Nodes ==
  { GoodA,
    GoodAB,
    GoodPlain,
    Leaf(JObj([method |-> JStr(GET)])),
    Leaf(JObj([method |-> JStr(GET), url |-> JStr(RawA)])),
    Leaf(JObj([url |-> JObj(EmptyDict)])),
    Leaf(JObj([url |-> Url(JNum(5))])),
    Leaf(JNull),
    Leaf(JStr(RawA)),
    JObj(EmptyDict),
    JNull,
    JNum(3),
    JStr(<<"x">> \o Chars("item") \o <<"s">>),
    JStr(Chars("request")),
    JStr(A),
    JObj([item |-> GoodA]),
    Folder(<<GoodAB, GoodA>>),
    Both(<<GoodA>>, Req(POST, RawPlain)),
    Both(<<Folder(<<GoodPlain, Both(<<GoodAB>>, Req(GET, RawA))>>), GoodA>>,
         Req(GET, RawAB)),
    Folder(<<Folder(<<Folder(<<GoodA>>)>>)>>),
    Folder(<<GoodA, JNull, GoodAB>>),
    Both(<<GoodA>>, JObj([url |-> JObj(EmptyDict)])) }

\* what collection_data.get('item', []) may be
Trees ==
  {JList(ns) : ns \in SeqsUpTo(Nodes, MaxWidth)}
  \cup { GoodA, JNull, JNum(1), JStr(Chars("item")),
         Both(<<GoodPlain>>, Req(GET, RawA)) }

\* pieces a raw URL is put together from
Pieces ==
  { Token(A), Token(B), Token(C), <<"b", "}", "}">>, <<"/">>, <<"{">> }

RawUrls == {Concat(ps) : ps \in SeqsUpTo(Pieces, MaxPieces)}

ValuesOfA ==
  { JStr(X), JStr(Token(B)), JStr(Token(A) \o X), JStr(<<"{", "{">>), JNum(7) }

ValuesOfB == { JStr(Y), JStr(<<"a", "}", "}">>), JStr(<<>>) }

\* variable maps over the names a and b; c is never defined
VariableMaps ==
  { EmptyDict }
  \cup {SetItem(EmptyDict, JStr(A), x) : x \in ValuesOfA}
  \cup {SetItem(EmptyDict, JStr(B), y) : y \in ValuesOfB}
  \cup {SetItem(SetItem(EmptyDict, JStr(A), x), JStr(B), y) :
          x \in ValuesOfA, y \in ValuesOfB}

(***************************************************************************)
(* The two functions applied to drawn inputs.                              *)
(***************************************************************************)
\* env_map = get_environment_map(env_data)
BuildMap ==
  /\ pc = "build"
  /\ env_map' = get_environment_map(env_data)
  /\ calls' = Append(calls, "get_environment_map")
  /\ pc' = "built"
  /\ UNCHANGED <<files, env_data, collection_data, final_requests,
                 second_requests, exception, stdout>>

\* the item the walk starts from: collection_data.get('item', [])
Root == PyGet(collection_data, "item", JList(<<>>))

\* variant in which the walk uses up the variables it substitutes
ResolveConsuming ==
  /\ pc = "built"
  /\ env_map.exc = "None"
  /\ final_requests' = find_and_process_items(Root.val, env_map.val)
  /\ env_map' = Ok([k \in {j \in DOMAIN env_map.val : j.t # "str"} |-> env_map.val[k]])
  /\ calls' = Append(calls, "find_and_process_items")
  /\ pc' = "resolved"
  /\ UNCHANGED <<files, env_data, collection_data, second_requests, exception, stdout>>

\* final_requests = find_and_process_items(item, env_map)
Resolve ==
  /\ pc = "built"
  /\ env_map.exc = "None"
  /\ final_requests' = find_and_process_items(Root.val, env_map.val)
  /\ calls' = Append(calls, "find_and_process_items")
  /\ pc' = "resolved"
  /\ UNCHANGED <<files, env_data, collection_data, env_map, second_requests,
                 exception, stdout>>

\* the same call once more, on the same objects
ResolveAgain ==
  /\ pc = "resolved"
  /\ second_requests' = find_and_process_items(Root.val, env_map.val)
  /\ calls' = Append(calls, "find_and_process_items")
  /\ pc' = "resolved_twice"
  /\ UNCHANGED <<files, env_data, collection_data, env_map, final_requests,
                 exception, stdout>>

FilesRead == [collection |-> "ok", env |-> "ok"]

\* nothing called, printed or raised yet, both files read
Idle ==
  /\ files = FilesRead
  /\ exception = "None"
  /\ stdout = <<>>
  /\ calls = <<>>

InitEnv ==
  /\ pc = "build"
  /\ env_data \in EnvDocs
  /\ collection_data = JObj(EmptyDict)
  /\ env_map = Unset
  /\ final_requests = Unset
  /\ second_requests = Unset
  /\ Idle

NextEnv == BuildMap

SpecEnv == InitEnv /\ [][NextEnv]_vars

InitWalk ==
  /\ pc = "build"
  /\ env_data \in WalkEnvDocs
  /\ collection_data \in {JObj([item |-> tree]) : tree \in Trees}
  /\ env_map = Unset
  /\ final_requests = Unset
  /\ second_requests = Unset
  /\ Idle

NextWalk == BuildMap \/ Resolve \/ ResolveAgain

SpecWalk == InitWalk /\ [][NextWalk]_vars

InitSubst ==
  /\ pc = "built"
  /\ env_data = JObj(EmptyDict)
  /\ collection_data \in {JObj([item |-> Leaf(ReqNoMethod(raw))]) : raw \in RawUrls}
  /\ env_map \in {Ok(m) : m \in VariableMaps}
  /\ final_requests = Unset
  /\ second_requests = Unset
  /\ Idle

NextSubst == Resolve

SpecSubst == InitSubst /\ [][NextSubst]_vars

(***************************************************************************)
(* main                                                                    *)
(***************************************************************************)
Line(kind) == [kind |-> kind]
Row(i, request) == [kind |-> "row", i |-> i, method |-> request.method, url |-> request.url]

FileOutcomes == {"ok", "missing", "invalid"}

FileError(outcome) ==
  IF outcome = "missing" THEN "FileNotFoundError" ELSE "JSONDecodeError"

\* with open(collection_file_path) as f: collection_data = json.load(f)
LoadCollection ==
  /\ pc = "load_collection"
  /\ IF files.collection = "ok"
       THEN pc' = "load_env" /\ exception' = exception
       ELSE pc' = "except" /\ exception' = FileError(files.collection)
  /\ UNCHANGED <<files, env_data, collection_data, env_map, final_requests,
                 second_requests, stdout, calls>>

\* with open(env_file_path) as f: env_data = json.load(f)
LoadEnvironment ==
  /\ pc = "load_env"
  /\ IF files.env = "ok"
       THEN pc' = "build_map" /\ exception' = exception
       ELSE pc' = "except" /\ exception' = FileError(files.env)
  /\ UNCHANGED <<files, env_data, collection_data, env_map, final_requests,
                 second_requests, stdout, calls>>

\* env_map = get_environment_map(env_data), inside main's try
MainBuildMap ==
  /\ pc = "build_map"
  /\ calls' = Append(calls, "get_environment_map")
  /\ LET built == get_environment_map(env_data) IN
     IF built.exc = "None"
       THEN env_map' = built /\ pc' = "check_map" /\ exception' = exception
       ELSE env_map' = env_map /\ pc' = "except" /\ exception' = built.exc
  /\ UNCHANGED <<files, env_data, collection_data, final_requests,
                 second_requests, stdout>>

\* variant that warns and goes on (the return is missing)
CheckMapNoReturn ==
  /\ pc = "check_map"
  /\ IF DOMAIN env_map.val = {}
       THEN stdout' = Append(stdout, Line("warning")) /\ pc' = "resolve"
       ELSE stdout' = stdout /\ pc' = "resolve"
  /\ UNCHANGED <<files, env_data, collection_data, env_map, final_requests,
                 second_requests, exception, calls>>

\* if not env_map: print(warning); return
CheckMap ==
  /\ pc = "check_map"
  /\ IF DOMAIN env_map.val = {}
       THEN stdout' = Append(stdout, Line("warning")) /\ pc' = "done"
       ELSE stdout' = stdout /\ pc' = "resolve"
  /\ UNCHANGED <<files, env_data, collection_data, env_map, final_requests,
                 second_requests, exception, calls>>

\* final_requests = find_and_process_items(collection_data.get('item', []), env_map)
MainResolve ==
  /\ pc = "resolve"
  /\ IF Root.exc # "None"
       THEN /\ exception' = Root.exc
            /\ pc' = "except"
            /\ UNCHANGED <<final_requests, calls>>
       ELSE /\ calls' = Append(calls, "find_and_process_items")
            /\ LET found == find_and_process_items(Root.val, env_map.val) IN
               IF found.exc = "None"
                 THEN final_requests' = found /\ pc' = "print" /\ exception' = exception
                 ELSE final_requests' = final_requests /\ pc' = "except"
                      /\ exception' = found.exc
  /\ UNCHANGED <<files, env_data, collection_data, env_map, second_requests, stdout>>

\* if final_requests: the table, one row per request; else: the notice
PrintResults ==
  /\ pc = "print"
  /\ stdout' =
       IF Len(final_requests.val) > 0
         THEN stdout \o <<Line("title"), Line("header"), Line("rule")>>
                \o [i \in 1..Len(final_requests.val) |-> Row(i, final_requests.val[i])]
                \o <<Line("blank")>>
         ELSE Append(stdout, Line("no requests"))
  /\ pc' = "done"
  /\ UNCHANGED <<files, env_data, collection_data, env_map, final_requests,
                 second_requests, exception, calls>>

\* except FileNotFoundError / json.JSONDecodeError / Exception
Except ==
  /\ pc = "except"
  /\ stdout' = Append(stdout,
       CASE exception = "FileNotFoundError" -> Line("file not found")
         [] exception = "JSONDecodeError" -> Line("invalid json")
         [] OTHER -> Line("unexpected error"))
  /\ pc' = "done"
  /\ UNCHANGED <<files, env_data, collection_data, env_map, final_requests,
                 second_requests, exception, calls>>

\* the environment documents main is run with
MainEnvDocs == WalkEnvDocs \cup {JObj(EmptyDict), JObj([values |-> JNull]), JNull}

\* the collection documents main is run with
MainCollections ==
  {JObj([item |-> JList(ns)]) : ns \in SeqsUpTo({GoodA, GoodAB, JNull, Folder(<<GoodPlain>>)}, MaxWidth)}
  \cup { JObj(EmptyDict), JObj([item |-> JNum(1)]), JList(<<>>), JNull }

InitMain ==
  /\ pc = "load_collection"
  /\ files \in [collection : FileOutcomes, env : FileOutcomes]
  /\ env_data \in MainEnvDocs
  /\ collection_data \in MainCollections
  /\ env_map = Unset
  /\ final_requests = Unset
  /\ second_requests = Unset
  /\ exception = "None"
  /\ stdout = <<>>
  /\ calls = <<>>

NextMain ==
  \/ LoadCollection
  \/ LoadEnvironment
  \/ MainBuildMap
  \/ CheckMap
  \/ MainResolve
  \/ PrintResults
  \/ Except

SpecMain == InitMain /\ [][NextMain]_vars

(***************************************************************************)
(* Vocabulary of the properties.                                           *)
(***************************************************************************)
\* the entries of the environment document's 'values' list, if it has one
EntriesOf(doc) ==
  IF doc.t = "obj" /\ "values" \in DOMAIN doc.v /\ doc.v["values"].t = "list"
    THEN doc.v["values"].v
    ELSE <<>>

\* an enabled entry with both key and value present
Qualifies(e) ==
  /\ e.t = "obj"
  /\ "enabled" \in DOMAIN e.v
  /\ Truthy(e.v["enabled"])
  /\ "key" \in DOMAIN e.v
  /\ "value" \in DOMAIN e.v

\* an entry with enabled=false that names a key
Disabled(e) ==
  /\ e.t = "obj"
  /\ "enabled" \in DOMAIN e.v
  /\ e.v["enabled"] = JBool(FALSE)
  /\ "key" \in DOMAIN e.v

MapReturned == pc = "built" /\ env_map.exc = "None"

\* the nodes the walk can visit from n: a list's elements, a folder's items
Children(n) ==
  IF n.t = "list" THEN n.v
  ELSE IF n.t = "obj" /\ "item" \in DOMAIN n.v /\ n.v["item"].t = "list"
    THEN n.v["item"].v
  ELSE <<>>

\* positions of the nodes of the tree under n, as index paths
RECURSIVE Paths(_)
Paths(n) ==
  {<<>>} \cup UNION {{<<i>> \o q : q \in Paths(Children(n)[i])} :
                      i \in 1..Len(Children(n))}

RECURSIVE At(_, _)
At(n, p) == IF p = <<>> THEN n ELSE At(Children(n)[Head(p)], Tail(p))

IsProperPrefix(p, q) == Len(p) < Len(q) /\ SubSeq(q, 1, Len(p)) = p

\* depth-first, left to right, a node's items before the node itself
Before(p, q) ==
  \/ IsProperPrefix(q, p)
  \/ /\ ~IsProperPrefix(p, q)
     /\ p # q
     /\ \E i \in 1..Len(p) :
          /\ i <= Len(q)
          /\ SubSeq(p, 1, i - 1) = SubSeq(q, 1, i - 1)
          /\ p[i] < q[i]

\* a request object whose url object has a string raw
WellFormed(n) ==
  /\ n.t = "obj"
  /\ "request" \in DOMAIN n.v
  /\ n.v["request"].t = "obj"
  /\ "url" \in DOMAIN n.v["request"].v
  /\ n.v["request"].v["url"].t = "obj"
  /\ "raw" \in DOMAIN n.v["request"].v["url"].v
  /\ n.v["request"].v["url"].v["raw"].t = "str"

Walked == pc \in {"resolved", "resolved_twice"}

TheMap == env_map.val
TheRoot == Root.val

\* the nodes whose own request the try block turns into an entry
EmitPaths == {p \in Paths(TheRoot) : RequestBody(At(TheRoot, p), TheMap).exc = "None"}

Rank(p) == 1 + Cardinality({q \in EmitPaths : Before(q, p)})

\* SpecSubst: the raw URL of the single request the walk is given
TheRaw == TheRoot.v["request"].v["url"].v["raw"].v

InMap(name) == JStr(name) \in DOMAIN TheMap

\* every placeholder of the raw URL that the map defines has a str value
ValuesAreStrings ==
  \A i \in 1..Len(findall(TheRaw)) :
    InMap(findall(TheRaw)[i]) => TheMap[JStr(findall(TheRaw)[i])].t = "str"

\* the raw URL with every token the map defines replaced once, left to right
RECURSIVE SinglePass(_, _)
SinglePass(s, i) ==
  IF i > Len(s) THEN <<>>
  ELSE LET e == MatchEnd(s, i) IN
    IF e > 0
      THEN (IF InMap(SubSeq(s, i + 2, e - 2))
              THEN TheMap[JStr(SubSeq(s, i + 2, e - 2))].v
              ELSE SubSeq(s, i, e)) \o SinglePass(s, e + 1)
      ELSE <<s[i]>> \o SinglePass(s, i + 1)

\* the raw URL cut at its tokens the map does not define:
\* <<text, token, text, ..., token, text>>
RECURSIVE CutAtUndefined(_, _, _)
CutAtUndefined(s, i, text) ==
  IF i > Len(s) THEN <<text>>
  ELSE LET e == MatchEnd(s, i) IN
    IF e > 0
      THEN IF InMap(SubSeq(s, i + 2, e - 2))
             THEN CutAtUndefined(s, e + 1, text \o SubSeq(s, i, e))
             ELSE <<text, SubSeq(s, i, e)>> \o CutAtUndefined(s, e + 1, <<>>)
      ELSE CutAtUndefined(s, i + 1, Append(text, s[i]))

\* the undefined tokens kept where they are, the text between them resolved
UndefinedKept ==
  LET parts == CutAtUndefined(TheRaw, 1, <<>>) IN
  Concat([k \in 1..Len(parts) |->
            IF k % 2 = 0 THEN parts[k]
            ELSE ReplaceLoop(findall(TheRaw), 1, parts[k], TheMap).val])

IsRow(line) == line.kind = "row"

Called(f) == \E i \in 1..Len(calls) : calls[i] = f

(***************************************************************************)
(* Properties.                                                             *)
(***************************************************************************)

\* C1: find_and_process_items never raises, whatever the nodes of the list
\* it is given are (null, number, string, object with or without a usable
\* request), and every node whose request can be extracted has its entry in
\* the output.
C1_WalkTotal ==
  (Walked /\ TheRoot.t = "list") =>
    /\ final_requests.exc = "None"
    /\ \A p \in EmitPaths :
         \E k \in 1..Len(final_requests.val) :
           final_requests.val[k] = RequestBody(At(TheRoot, p), TheMap).val

\* C2: get_environment_map never raises, whatever the entries of the
\* document's 'values' are, and every enabled entry with key and value is in
\* the returned map.
C2_EnvTotal ==
  (pc = "built" /\ env_data.t = "obj") =>
    /\ env_map.exc = "None"
    /\ \A i \in 1..Len(EntriesOf(env_data)) :
         LET e == EntriesOf(env_data)[i] IN
         (Qualifies(e) /\ Hashable(e.v["key"])) =>
           DictKey(e.v["key"]) \in DOMAIN env_map.val

\* C3: the resolved URL is the raw URL with each token the map defines
\* replaced once; text a replacement produced is never expanded again.
C3_SinglePass ==
  (pc = "resolved" /\ ValuesAreStrings) =>
    /\ Len(final_requests.val) = 1
    /\ final_requests.val[1].url = SinglePass(TheRaw, 1)

\* C4: when the walk returns, its output lists the extracted requests in
\* depth-first, left-to-right order, a node's 'item' subtree before the
\* node's own request, with nothing merged or reordered.
C4_DepthFirstOrder ==
  (Walked /\ final_requests.exc = "None") =>
    /\ Len(final_requests.val) = Cardinality(EmitPaths)
    /\ \A p \in EmitPaths :
         final_requests.val[Rank(p)] = RequestBody(At(TheRoot, p), TheMap).val

\* C4 witness: a walk that returned the request of a node after the
\* requests of its 'item' subtree, with a sibling request before both.
C4_Witness ==
  /\ pc = "resolved"
  /\ final_requests.exc = "None"
  /\ \E p \in EmitPaths, q \in EmitPaths, r \in EmitPaths :
       /\ IsProperPrefix(q, p)
       /\ Before(r, p)
       /\ ~IsProperPrefix(q, r)
       /\ r # q
       /\ At(TheRoot, r) # At(TheRoot, p)

\* C5: the output is as long as the tree has nodes with a well-formed
\* request descriptor, for every map get_environment_map produces.
C5_LengthIsCount ==
  (Walked /\ final_requests.exc = "None") =>
    Len(final_requests.val) =
      Cardinality({p \in Paths(TheRoot) : WellFormed(At(TheRoot, p))})

\* C6 as stated: the key of an entry with enabled=false is absent from the
\* returned map, whatever the other entries are.
C6_DisabledKeyAbsent ==
  MapReturned =>
    \A i \in 1..Len(EntriesOf(env_data)) :
      LET e == EntriesOf(env_data)[i] IN
      Disabled(e) => DictKey(e.v["key"]) \notin DOMAIN env_map.val

\* C6 amended: an entry with enabled=false adds nothing to the returned map:
\* its key is in the map only when another, enabled entry with key and value
\* has the same key, and the map then holds the value of such an entry.
C6_DisabledAddsNothing ==
  MapReturned =>
    \A i \in 1..Len(EntriesOf(env_data)) :
      LET e == EntriesOf(env_data)[i] IN
      (Disabled(e) /\ DictKey(e.v["key"]) \in DOMAIN env_map.val) =>
        \E j \in 1..Len(EntriesOf(env_data)) :
          LET o == EntriesOf(env_data)[j] IN
          /\ j # i
          /\ Qualifies(o)
          /\ DictKey(o.v["key"]) = DictKey(e.v["key"])
          /\ env_map.val[DictKey(e.v["key"])] = o.v["value"]

\* C6 witness: a map was returned that holds the key of a disabled entry.
C6_Witness ==
  /\ MapReturned
  /\ \E i \in 1..Len(EntriesOf(env_data)) :
       /\ Disabled(EntriesOf(env_data)[i])
       /\ DictKey(EntriesOf(env_data)[i].v["key"]) \in DOMAIN env_map.val

\* C7: every token of the raw URL whose name the map does not define is in
\* the resolved URL unchanged and in place (the text between such tokens is
\* what the substitution makes of it), and the request is emitted.
C7_UndefinedLeftAlone ==
  (pc = "resolved" /\ ValuesAreStrings) =>
    /\ final_requests.exc = "None"
    /\ Len(final_requests.val) = 1
    /\ final_requests.val[1].url = UndefinedKept

\* C7 witness: a resolved URL that kept an undefined token next to a
\* substituted one.
C7_Witness ==
  /\ pc = "resolved"
  /\ ValuesAreStrings
  /\ Len(CutAtUndefined(TheRaw, 1, <<>>)) >= 3
  /\ \E i \in 1..Len(findall(TheRaw)) : InMap(findall(TheRaw)[i])
  /\ Len(final_requests.val) = 1
  /\ final_requests.val[1].url # TheRaw

\* C8: the returned map holds, for the key of every enabled entry with key
\* and value, the value of the last such entry with that key; entries that
\* are disabled or incomplete change nothing.
C8_LastEnabledWins ==
  MapReturned =>
    /\ \A i \in 1..Len(EntriesOf(env_data)) :
         LET es == EntriesOf(env_data)
             k == DictKey(es[i].v["key"])
             same == {j \in 1..Len(es) : Qualifies(es[j]) /\ DictKey(es[j].v["key"]) = k}
             last == CHOOSE j \in same : \A l \in same : l <= j
         IN Qualifies(es[i]) =>
              /\ k \in DOMAIN env_map.val
              /\ env_map.val[k] = es[last].v["value"]
    /\ \A k \in DOMAIN env_map.val :
         \E i \in 1..Len(EntriesOf(env_data)) :
           /\ Qualifies(EntriesOf(env_data)[i])
           /\ DictKey(EntriesOf(env_data)[i].v["key"]) = k

\* C8 witness: two enabled entries with one key and different values, then a
\* disabled or incomplete entry with the same key, and a map returned.
C8_Witness ==
  /\ MapReturned
  /\ LET es == EntriesOf(env_data) IN
     \E i \in 1..Len(es), j \in 1..Len(es), l \in 1..Len(es) :
       /\ i < j
       /\ j < l
       /\ Qualifies(es[i])
       /\ Qualifies(es[j])
       /\ es[i].v["key"] = es[j].v["key"]
       /\ es[i].v["value"] # es[j].v["value"]
       /\ ~Qualifies(es[l])
       /\ es[l].t = "obj"
       /\ "key" \in DOMAIN es[l].v
       /\ es[l].v["key"] = es[j].v["key"]

C10_EmptyMapStops ==
  /\ (env_map.exc = "None" /\ DOMAIN env_map.val = {}) =>
       /\ ~Called("find_and_process_items")
       /\ \A i \in 1..Len(stdout) : ~IsRow(stdout[i])
       /\ pc \in {"check_map", "done"}
       /\ pc = "done" => stdout = <<Line("warning")>>
  /\ (Called("find_and_process_items") \/ \E i \in 1..Len(stdout) : IsRow(stdout[i])) =>
       /\ env_map.exc = "None"
       /\ DOMAIN env_map.val # {}
       /\ calls[1] = "get_environment_map"

\* C10 witness: main ended on the warning for an empty map, with a
\* collection that has requests to resolve.
C10_Witness ==
  /\ pc = "done"
  /\ env_map.exc = "None"
  /\ DOMAIN env_map.val = {}
  /\ stdout = <<Line("warning")>>
  /\ Cardinality({p \in Paths(TheRoot) : WellFormed(At(TheRoot, p))}) > 0

====
